---- MODULE Spec2Model ----
(***************************************************************************)
(* The Bread Box name generator (src/Name Generator/generator.py).         *)
(*                                                                         *)
(* A Python str is modelled as a sequence of one-character strings, so     *)
(* that indexing, slicing, splitting and lowercasing are computed the way  *)
(* the code computes them.  Three specifications share the module:         *)
(*   Spec      the distance engine: construction of generators and calls   *)
(*             of _weighted_levenshtein_distance through the process-wide  *)
(*             default-argument memo;                                      *)
(*   SpecRank  best_breads_for_name, sequential and on a thread pool;      *)
(*   SpecNorm  _normalize_bread_name.                                      *)
(***************************************************************************)
EXTENDS Integers, Sequences, FiniteSets, TLC

VARIABLES
    generators,     \* generator object -> its three costs, or NoGenerator
    memo,           \* the memo={} default argument: one dict for the process
    a, b,           \* the two words the distance calls are made on
    last,           \* what the most recent constructor or distance call did
    name,           \* the individual's name given to best_breads_for_name
    bread_terms,    \* what _bread_terms() returns: the curated set
    all_breads,     \* what _all_breads() returns: the scraped, normalized set
    use_all_breads, \* the use_all_breads argument
    iteration,      \* the order in which this process iterates every_bread
    call,           \* the best_breads_for_name call in progress, if any
    workers,        \* the pool's threads: the task and call stack of each
    next_task,      \* index in `iteration` of the next item no thread has taken
    bread_weights,  \* pool.map's result list, filled by index as tasks finish
    outcome,        \* how the call just made ended, until the caller has used it
    returned,       \* generator -> the first list it returned, and in which mode
    bread_name,     \* the raw entry given to _normalize_bread_name
    illegal_order,  \* the order in which this process iterates illegal_characters
    components,     \* what _normalize_bread_name(bread_name) returned
    again           \* a returned component and what normalizing it returned

distVars == <<generators, memo, a, b, last>>

rankVars == <<name, bread_terms, all_breads, use_all_breads, iteration,
              call, workers, next_task, bread_weights, outcome, returned>>

normVars == <<bread_name, illegal_order, components, again>>

vars == <<generators, memo, a, b, last,
          name, bread_terms, all_breads, use_all_breads, iteration,
          call, workers, next_task, bread_weights, outcome, returned,
          bread_name, illegal_order, components, again>>

----------------------------------------------------------------------------
(* Bounds and input sets *)

\* longest word drawn for a distance call
MaxLen == 2

\* the letters the words of the distance calls are made of
Letters == {"x", "y"}

\* the values a cost is drawn from (negative, zero, and positive); the code
\* takes any number, the model draws integers
WeightVals == {-1, 0, 1, 2}

\* the generator objects of the process
Generators == {1, 2}

Words(n) == UNION {[1..k -> Letters] : k \in 0..n}

----------------------------------------------------------------------------
(* Python values *)

\* i=None, j=None: the defaults of the two index parameters.  Every index the
\* code passes explicitly is >= 0.
None == -1

NoGenerator == [made |-> FALSE]

Min2(x, y) == IF x <= y THEN x ELSE y

\* min(x, y, z)
Min3(x, y, z) == Min2(x, Min2(y, z))

----------------------------------------------------------------------------
(* BreadBoxNameGenerator.__init__ *)

\* a variant that validates its arguments and raises on a negative cost
init_rejecting(insertion_cost, deletion_cost, substitution_cost) ==
    IF insertion_cost < 0 \/ deletion_cost < 0 \/ substitution_cost < 0
    THEN [made |-> FALSE]
    ELSE [made |-> TRUE,
          insertion_cost |-> insertion_cost,
          deletion_cost |-> deletion_cost,
          substitution_cost |-> substitution_cost]

\* the object after __init__: the three arguments stored as given
init(insertion_cost, deletion_cost, substitution_cost) ==
    [made |-> TRUE,
     insertion_cost |-> insertion_cost,
     deletion_cost |-> deletion_cost,
     substitution_cost |-> substitution_cost]

----------------------------------------------------------------------------
(* BreadBoxNameGenerator._weighted_levenshtein_distance *)

\* a variant that returns the index that is zero
base_case_zero(i, j) == IF i = 0 THEN i ELSE j

\* if i == 0: return j / if j == 0: return i
base_case(i, j) == IF i = 0 THEN j ELSE i

\* sub_cost = 0 if a[i-1] == b[j-1] else 1   (Python indexes from 0)
sub_cost(s, t, i, j) == IF s[i] = t[j] THEN 0 ELSE 1

\* a variant that drops the substitution weight
branches_unweighted_sub(self, d1, d2, d3, sc) ==
    Min3(d1 + self.insertion_cost * 1,
         d2 + self.deletion_cost * 1,
         d3 + sc)

\* min(d(i-1, j) + insertion_cost, d(i, j-1) + deletion_cost,
\*     d(i-1, j-1) + substitution_cost * sub_cost)
branches(self, d1, d2, d3, sc) ==
    Min3(d1 + self.insertion_cost * 1,
         d2 + self.deletion_cost * 1,
         d3 + self.substitution_cost * sc)

\* The call _weighted_levenshtein_distance(s, t, i, j) on generator `self`
\* with the shared dict in state m: the value returned and the dict after.
RECURSIVE weighted_levenshtein_distance(_, _, _, _, _, _)
weighted_levenshtein_distance(self, s, t, i, j, m) ==
    IF <<s, t, i, j>> \in DOMAIN m
    THEN [val |-> m[<<s, t, i, j>>], memo |-> m]
    ELSE LET i1 == IF i = None THEN Len(s) ELSE i
             j1 == IF j = None THEN Len(t) ELSE j
         IN  IF i1 = 0 \/ j1 = 0
             THEN [val |-> base_case(i1, j1), memo |-> m]
             ELSE LET r1 == weighted_levenshtein_distance(self, s, t, i1 - 1, j1, m)
                      r2 == weighted_levenshtein_distance(self, s, t, i1, j1 - 1, r1.memo)
                      r3 == weighted_levenshtein_distance(self, s, t, i1 - 1, j1 - 1, r2.memo)
                      v  == branches(self, r1.val, r2.val, r3.val, sub_cost(s, t, i1, j1))
                      m4 == (<<s, t, i1, j1>> :> v) @@ r3.memo
                  IN  [val |-> m4[<<s, t, i1, j1>>], memo |-> m4]

\* The recurrence of lines 43-54 with no dict at all: what the same call
\* computes when nothing is remembered between or within calls.
RECURSIVE recurrence(_, _, _, _, _)
recurrence(self, s, t, i, j) ==
    IF i = 0 \/ j = 0
    THEN base_case(i, j)
    ELSE branches(self,
                  recurrence(self, s, t, i - 1, j),
                  recurrence(self, s, t, i, j - 1),
                  recurrence(self, s, t, i - 1, j - 1),
                  sub_cost(s, t, i, j))

\* every entry the dict holds for the pair (s, t) is the recurrence's value
\* under the costs of `self`
memo_agrees(self, s, t, m) ==
    \A k \in DOMAIN m :
        (k[1] = s /\ k[2] = t) => m[k] = recurrence(self, s, t, k[3], k[4])

----------------------------------------------------------------------------
(* The distance engine as a state machine *)

NoCall == [op |-> "none"]

\* the ranker at rest: no corpus, no call
RankUnused ==
    /\ name = <<>>
    /\ bread_terms = {}
    /\ all_breads = {}
    /\ use_all_breads = FALSE
    /\ iteration = <<>>
    /\ call = [state |-> "idle"]
    /\ workers = <<>>
    /\ next_task = 1
    /\ bread_weights = <<>>
    /\ outcome = [status |-> "none"]
    /\ returned = <<>>

\* the normalizer at rest: no entry
NormUnused ==
    /\ bread_name = <<>>
    /\ illegal_order = <<>>
    /\ components = [done |-> FALSE]
    /\ again = [done |-> FALSE]

InitDist ==
    /\ generators = [g \in Generators |-> NoGenerator]
    /\ memo = <<>>
    /\ a \in Words(MaxLen)
    /\ b \in Words(MaxLen)
    /\ last = NoCall
    /\ RankUnused
    /\ NormUnused

\* generator g is constructed with custom costs
Construct(g) ==
    \E ic \in WeightVals, dc \in WeightVals, sc \in WeightVals :
        /\ ~generators[g].made
        /\ generators' = [generators EXCEPT ![g] = init(ic, dc, sc)]
        /\ last' = [op |-> "init", g |-> g, args |-> <<ic, dc, sc>>,
                    raised |-> ~init(ic, dc, sc).made]
        /\ UNCHANGED <<memo, a, b>>
    /\ UNCHANGED <<rankVars, normVars>>
        /\ UNCHANGED <<rankVars, normVars>>

\* generator g is constructed with the default costs, BreadBoxNameGenerator()
ConstructDefault(g) ==
    /\ ~generators[g].made
    /\ generators' = [generators EXCEPT ![g] = init(1, 1, 1)]
    /\ last' = [op |-> "init", g |-> g, args |-> <<1, 1, 1>>,
                raised |-> ~init(1, 1, 1).made]
    /\ UNCHANGED <<memo, a, b>>
    /\ UNCHANGED <<rankVars, normVars>>

\* a caller runs g._weighted_levenshtein_distance(a, b) to completion
Distance(g) ==
    /\ generators[g].made
    /\ LET r == weighted_levenshtein_distance(generators[g], a, b, None, None, memo)
       IN  /\ memo' = r.memo
           /\ last' = [op |-> "distance", g |-> g, val |-> r.val,
                       warm |-> memo # <<>>,
                       agreed |-> memo_agrees(generators[g], a, b, memo)]
    /\ UNCHANGED <<generators, a, b>>
    /\ UNCHANGED <<rankVars, normVars>>

NextDist ==
    \/ Construct(1)
    \/ ConstructDefault(2)
    \/ \E g \in Generators : Distance(g)

Spec == InitDist /\ [][NextDist]_vars

----------------------------------------------------------------------------
(* str.lower() *)

UpperCase == <<"A", "B", "C", "D", "E", "F", "G", "H", "I", "J", "K", "L", "M",
               "N", "O", "P", "Q", "R", "S", "T", "U", "V", "W", "X", "Y", "Z">>

LowerCase == <<"a", "b", "c", "d", "e", "f", "g", "h", "i", "j", "k", "l", "m",
               "n", "o", "p", "q", "r", "s", "t", "u", "v", "w", "x", "y", "z">>

\* 65 <= ord(char) <= 90
is_upper(char) == \E k \in 1..26 : UpperCase[k] = char

lower_char(char) ==
    IF is_upper(char)
    THEN LowerCase[CHOOSE k \in 1..26 : UpperCase[k] = char]
    ELSE char

\* s.lower()
lower(s) == [k \in 1..Len(s) |-> lower_char(s[k])]

----------------------------------------------------------------------------
(* BreadBoxNameGenerator.best_breads_for_name *)

\* most threads a pool is asked for
MaxThreads == 2

\* the costs the script constructs its generator with
INSERTION_COST == 1
DELETION_COST == 2
SUBSTITUTION_COST == 2

\* the names the rank calls are made on, and what the two corpus sources hold:
\* "y" is in both sources, "y" and "Y" lowercase to the same word
RankNames == {<<"X", "x">>, <<"x", "y">>, <<"y">>}
TermSets == {{<< >>, <<"y">>}}
BreadSets == {{<<"y">>, <<"Y">>}}

\* every_bread = self._all_breads() | self._bread_terms() if use_all_breads
\*               else self._bread_terms()
every_bread == IF use_all_breads THEN all_breads \cup bread_terms ELSE bread_terms

\* the sequences that enumerate the set S, each element once
Enumerations(S) ==
    {q \in [1..Cardinality(S) -> S] : \A x \in S : \E k \in DOMAIN q : q[k] = x}

\* the two words of the call in the pool's lambda:
\* self._weighted_levenshtein_distance(name.lower(), bread.lower())
pool_key(nm, bread) == <<lower(nm), lower(bread)>>

\* the two words of the call in the sequential sort key
sorted_key(nm, bread) == <<lower(nm), lower(bread)>>

\* sorted(pairs, key=weight): stable, ascending; pairs are [bread, weight]
RECURSIVE sorted(_)
sorted(pairs) ==
    IF pairs = <<>>
    THEN <<>>
    ELSE LET h    == Head(pairs)
             rest == sorted(Tail(pairs))
             n    == Cardinality({k \in 1..Len(rest) : rest[k].weight < h.weight})
         IN  SubSeq(rest, 1, n) \o <<h>> \o SubSeq(rest, n + 1, Len(rest))

\* list(map(lambda bread_weight: bread_weight[0], pairs))
breads_of(pairs) == [k \in 1..Len(pairs) |-> pairs[k].bread]

\* The sequential branch computes the key of every item in iteration order,
\* each call running to completion on the dict the previous one left:
\* the [bread, weight] pairs so far and the dict after item k.
RECURSIVE keyed(_, _, _, _, _)
keyed(self, nm, items, k, m) ==
    IF k = 0
    THEN [pairs |-> <<>>, memo |-> m]
    ELSE LET before == keyed(self, nm, items, k - 1, m)
             words  == sorted_key(nm, items[k])
             r      == weighted_levenshtein_distance(self, words[1], words[2],
                                                     None, None, before.memo)
         IN  [pairs |-> Append(before.pairs, [bread |-> items[k], weight |-> r.val]),
              memo  |-> r.memo]

\* A set of str built the same way iterates in the same order for as long
\* as the process lives (the order changes with the hash seed, from one
\* process to the next), so `iteration` is drawn once, in InitRank, and every
\* call of the process, in either branch, iterates every_bread in it.
NotRun == [ran |-> FALSE]

\* the first list generator g returned stays on record with its mode
first_returned(g, threading, out) ==
    IF returned[g].ran
    THEN returned
    ELSE [returned EXCEPT ![g] = [ran |-> TRUE, out |-> out,
                                  pooled |-> (threading # None /\ threading # 0)]]

\* no call is in progress and the last result has been used
CanCall == call.state = "idle" /\ outcome.status = "none"

InitRank ==
    /\ generators = [g \in Generators |->
                        IF g = 1 THEN init(1, 1, 1)
                        ELSE init(INSERTION_COST, DELETION_COST, SUBSTITUTION_COST)]
    /\ memo = <<>>
    /\ a = <<>>
    /\ b = <<>>
    /\ last = NoCall
    /\ name \in RankNames
    /\ bread_terms \in TermSets
    /\ all_breads \in BreadSets
    /\ use_all_breads \in BOOLEAN
    /\ iteration \in Enumerations(every_bread)
    /\ call = [state |-> "idle"]
    /\ workers = <<>>
    /\ next_task = 1
    /\ bread_weights = <<>>
    /\ outcome = [status |-> "none"]
    /\ returned = [g \in Generators |-> NotRun]
    /\ NormUnused

rankInputs == <<name, bread_terms, all_breads, use_all_breads, iteration>>

\* `if threading:` is false (None or 0): the sequential sort, run to completion
RankSequential(g, threading) ==
    /\ CanCall
    /\ threading \in {None, 0}
    /\ LET r   == keyed(generators[g], name, iteration, Len(iteration), memo)
           out == breads_of(sorted(r.pairs))
       IN  /\ memo' = r.memo
           /\ outcome' = [status |-> "returned", g |-> g, threading |-> threading,
                          out |-> out]
           /\ returned' = first_returned(g, threading, out)
    /\ UNCHANGED <<generators, a, b, last, call, workers, next_task, bread_weights>>
    /\ UNCHANGED <<rankInputs, normVars>>

\* `if threading:` is true and ThreadPool(threading) raises ValueError
RankRaises(g, threading) ==
    /\ CanCall
    /\ threading # None /\ threading < 0
    /\ outcome' = [status |-> "raised", g |-> g, threading |-> threading]
    /\ UNCHANGED <<generators, memo, a, b, last, call, workers, next_task,
                   bread_weights, returned>>
    /\ UNCHANGED <<rankInputs, normVars>>

IdleWorker == [task |-> 0, stack |-> <<>>]

\* `if threading:` is true: ThreadPool(threading) starts its threads and
\* pool.map queues one task per item of every_bread
RankPoolStart(g, threading) ==
    /\ CanCall
    /\ threading # None /\ threading > 0
    /\ call' = [state |-> "map", g |-> g, threading |-> threading]
    /\ workers' = [w \in 1..threading |-> IdleWorker]
    /\ next_task' = 1
    /\ bread_weights' = <<>>
    /\ UNCHANGED <<generators, memo, a, b, last, outcome, returned>>
    /\ UNCHANGED <<rankInputs, normVars>>

\* an idle thread takes the next queued item and enters the lambda's call,
\* _weighted_levenshtein_distance(name.lower(), bread.lower()) with i = j = None
WorkerTake(w) ==
    /\ call.state = "map"
    /\ w \in DOMAIN workers
    /\ workers[w].task = 0
    /\ next_task <= Len(iteration)
    /\ workers' = [workers EXCEPT ![w] =
                      [task |-> next_task,
                       stack |-> <<[i |-> None, j |-> None, pc |-> "lookup"]>>]]
    /\ next_task' = next_task + 1
    /\ UNCHANGED <<generators, memo, a, b, last, call, bread_weights, outcome, returned>>
    /\ UNCHANGED <<rankInputs, normVars>>

\* The stack of a thread once its innermost call has returned val: the caller
\* keeps the value and enters its next recursive call, or, with all three
\* values in hand, stands before the store of line 52.  An empty stack means
\* the lambda's own call has returned.
after_return(stack, val) ==
    LET rest == SubSeq(stack, 1, Len(stack) - 1)
    IN  IF rest = <<>>
        THEN <<>>
        ELSE LET f == rest[Len(rest)]
                 g == CASE f.pc = "first"  ->
                              <<[f EXCEPT !.pc = "second", !.d1 = val],
                                [i |-> f.i, j |-> f.j - 1, pc |-> "lookup"]>>
                        [] f.pc = "second" ->
                              <<[f EXCEPT !.pc = "third", !.d2 = val],
                                [i |-> f.i - 1, j |-> f.j - 1, pc |-> "lookup"]>>
                        [] f.pc = "third"  ->
                              <<[f EXCEPT !.pc = "store", !.d3 = val]>>
             IN  SubSeq(rest, 1, Len(rest) - 1) \o g

\* a variant that collects results in the order the tasks finish
map_slot_by_completion(task, done) == Cardinality(done) + 1

\* pool.map returns results in the order of its input: the result of the
\* task for item k is element k of the list, whichever tasks are done already
map_slot(task, done) == task

\* what thread w's step leaves behind when its innermost call returns val:
\* either the thread goes on, or its task is done and pool.map puts the
\* lambda's (bread, weight) at the task's index of the result list
Returning(w, val) ==
    LET st == after_return(workers[w].stack, val)
    IN  IF st = <<>>
        THEN /\ workers' = [workers EXCEPT ![w] = IdleWorker]
             /\ bread_weights' =
                    (map_slot(workers[w].task, DOMAIN bread_weights) :>
                        [bread |-> iteration[workers[w].task], weight |-> val])
                    @@ bread_weights
        ELSE /\ workers' = [workers EXCEPT ![w].stack = st]
             /\ UNCHANGED bread_weights

\* the words of thread w's task
task_words(w) == pool_key(name, iteration[workers[w].task])

\* line 33 in thread w: `(a, b, i, j) in memo`, and on a miss lines 37-46:
\* the defaults, the base cases, or the first recursive call
WorkerLookup(w) ==
    /\ call.state = "map"
    /\ w \in DOMAIN workers
    /\ workers[w].stack # <<>>
    /\ LET st == workers[w].stack
           f  == st[Len(st)]
           wd == task_words(w)
           i1 == IF f.i = None THEN Len(wd[1]) ELSE f.i
           j1 == IF f.j = None THEN Len(wd[2]) ELSE f.j
       IN  /\ f.pc = "lookup"
           /\ \/ /\ <<wd[1], wd[2], f.i, f.j>> \in DOMAIN memo
                 /\ workers' = [workers EXCEPT ![w].stack[Len(st)].pc = "hit"]
                 /\ UNCHANGED bread_weights
              \/ /\ <<wd[1], wd[2], f.i, f.j>> \notin DOMAIN memo
                 /\ (i1 = 0 \/ j1 = 0)
                 /\ Returning(w, base_case(i1, j1))
              \/ /\ <<wd[1], wd[2], f.i, f.j>> \notin DOMAIN memo
                 /\ ~(i1 = 0 \/ j1 = 0)
                 /\ workers' = [workers EXCEPT ![w].stack =
                        SubSeq(st, 1, Len(st) - 1)
                        \o <<[i |-> i1, j |-> j1, pc |-> "first",
                              d1 |-> 0, d2 |-> 0, d3 |-> 0],
                             [i |-> i1 - 1, j |-> j1, pc |-> "lookup"]>>]
                 /\ UNCHANGED bread_weights
    /\ UNCHANGED <<generators, memo, a, b, last, call, next_task, outcome, returned>>
    /\ UNCHANGED <<rankInputs, normVars>>

\* line 34 in thread w: `return memo[a, b, i, j]`
WorkerHit(w) ==
    /\ call.state = "map"
    /\ w \in DOMAIN workers
    /\ workers[w].stack # <<>>
    /\ LET st == workers[w].stack
           f  == st[Len(st)]
           wd == task_words(w)
       IN  /\ f.pc = "hit"
           /\ Returning(w, memo[<<wd[1], wd[2], f.i, f.j>>])
    /\ UNCHANGED <<generators, memo, a, b, last, call, next_task, outcome, returned>>
    /\ UNCHANGED <<rankInputs, normVars>>

\* lines 49-54 in thread w: the three values are in, the minimum is stored
WorkerStore(w) ==
    /\ call.state = "map"
    /\ w \in DOMAIN workers
    /\ workers[w].stack # <<>>
    /\ LET st == workers[w].stack
           f  == st[Len(st)]
           wd == task_words(w)
       IN  /\ f.pc = "store"
           /\ memo' = (<<wd[1], wd[2], f.i, f.j>> :>
                          branches(generators[call.g], f.d1, f.d2, f.d3,
                                   sub_cost(wd[1], wd[2], f.i, f.j))) @@ memo
           /\ workers' = [workers EXCEPT ![w].stack[Len(st)].pc = "stored"]
    /\ UNCHANGED <<generators, a, b, last, call, next_task, bread_weights,
                   outcome, returned>>
    /\ UNCHANGED <<rankInputs, normVars>>

\* line 55 in thread w: `return memo[a, b, i, j]` after the store
WorkerReturn(w) ==
    /\ call.state = "map"
    /\ w \in DOMAIN workers
    /\ workers[w].stack # <<>>
    /\ LET st == workers[w].stack
           f  == st[Len(st)]
           wd == task_words(w)
       IN  /\ f.pc = "stored"
           /\ Returning(w, memo[<<wd[1], wd[2], f.i, f.j>>])
    /\ UNCHANGED <<generators, memo, a, b, last, call, next_task, outcome, returned>>
    /\ UNCHANGED <<rankInputs, normVars>>

\* every task is done: pool.map returns the result list in item order and
\* lines 72-73 sort it by weight and strip the weights
RankPoolFinish ==
    /\ call.state = "map"
    /\ DOMAIN bread_weights = 1..Len(iteration)
    /\ LET out == breads_of(sorted(bread_weights))
       IN  /\ outcome' = [status |-> "returned", g |-> call.g,
                          threading |-> call.threading, out |-> out]
           /\ returned' = first_returned(call.g, call.threading, out)
    /\ call' = [state |-> "idle"]
    /\ workers' = <<>>
    /\ next_task' = 1
    /\ bread_weights' = <<>>
    /\ UNCHANGED <<generators, memo, a, b, last>>
    /\ UNCHANGED <<rankInputs, normVars>>

\* the caller uses the result: print(generator.best_breads_for_name(...))
Printed ==
    /\ outcome.status # "none"
    /\ outcome' = [status |-> "none"]
    /\ UNCHANGED <<generators, memo, a, b, last, call, workers, next_task,
                   bread_weights, returned>>
    /\ UNCHANGED <<rankInputs, normVars>>

\* the values of the threading argument: None (which the model writes -1),
\* a negative count, zero, and the positive counts up to MaxThreads
ThreadingArgs == {None} \cup {n \in -2..MaxThreads : n # None}

NextRank ==
    \/ \E g \in Generators, threading \in ThreadingArgs : RankSequential(g, threading)
    \/ \E g \in Generators, threading \in ThreadingArgs : RankRaises(g, threading)
    \/ \E g \in Generators, threading \in ThreadingArgs : RankPoolStart(g, threading)
    \/ \E w \in 1..MaxThreads : WorkerTake(w)
    \/ \E w \in 1..MaxThreads : WorkerLookup(w)
    \/ \E w \in 1..MaxThreads : WorkerHit(w)
    \/ \E w \in 1..MaxThreads : WorkerStore(w)
    \/ \E w \in 1..MaxThreads : WorkerReturn(w)
    \/ RankPoolFinish
    \/ Printed

SpecRank == InitRank /\ [][NextRank]_vars

----------------------------------------------------------------------------
(* BreadBoxNameGenerator._normalize_bread_name *)

\* longest entry drawn from the entry alphabet
MaxEntryLen == 4

\* The characters of the entries: the letters of "or", a comma, a space, a
\* tab (whitespace that is not a space), an apostrophe, a capital and a
\* double quote.
EntryChars == {"o", "r", ",", " ", "\t", "'", "B", "\""}

\* The three characters of the mis-decoded right single quote of line 138
\* (U+00E2, U+20AC, U+2122), written here in ASCII.
MisA == "a-circumflex"
MisEuro == "euro-sign"
MisTm == "trade-mark-sign"

Quote == <<"\"">>
Misdecoded == <<MisA, MisEuro, MisTm>>

\* entries given in full, beside the entries over EntryChars
CornBread == <<"C", "o", "r", "n", "B", "r", "e", "a", "d">>
FrenchBread == <<"F", "r", "e", "n", "c", "h", " ", "B", "r", "e", "a", "d">>
ItalianBread == <<"I", "t", "a", "l", "i", "a", "n", " ", "B", "r", "e", "a", "d">>
SampleEntries ==
    { CornBread,
      FrenchBread \o <<",", " ">> \o ItalianBread,
      <<"P", "a", "i", "n", "\t", "B", "i", "s">>,
      <<MisA, MisEuro, "\"", MisTm, "B">>,
      <<MisA, MisA, MisEuro, MisTm, MisEuro, MisTm>> }

Entries == SampleEntries \cup UNION {[1..k -> EntryChars] : k \in 0..MaxEntryLen}

\* what str.strip() removes from both ends
Whitespace == {" ", "\t", "\n"}

\* s starts with the characters of pat
starts_with(s, pat) == Len(s) >= Len(pat) /\ SubSeq(s, 1, Len(pat)) = pat

\* s.replace(pat, ""): every occurrence of pat, found left to right, removed
RECURSIVE replace_with_nothing(_, _)
replace_with_nothing(s, pat) ==
    IF s = <<>>
    THEN <<>>
    ELSE IF starts_with(s, pat)
         THEN replace_with_nothing(SubSeq(s, Len(pat) + 1, Len(s)), pat)
         ELSE <<Head(s)>> \o replace_with_nothing(Tail(s), pat)

\* for illegal_character in illegal_characters:
\*     bread_name = bread_name.replace(illegal_character, "")
RECURSIVE strip_illegal(_, _)
strip_illegal(s, order) ==
    IF order = <<>>
    THEN s
    ELSE strip_illegal(replace_with_nothing(s, Head(order)), Tail(order))

\* s.split(sep): the pieces between the occurrences of sep, found left to right
RECURSIVE split(_, _)
split(s, sep) ==
    IF \E k \in 1..Len(s) : starts_with(SubSeq(s, k, Len(s)), sep)
    THEN LET k == CHOOSE k \in 1..Len(s) :
                     /\ starts_with(SubSeq(s, k, Len(s)), sep)
                     /\ \A h \in 1..(k - 1) : ~starts_with(SubSeq(s, h, Len(s)), sep)
         IN  <<SubSeq(s, 1, k - 1)>> \o split(SubSeq(s, k + Len(sep), Len(s)), sep)
    ELSE <<s>>

\* s.strip()
RECURSIVE strip(_)
strip(s) ==
    IF s = <<>> THEN s
    ELSE IF Head(s) \in Whitespace THEN strip(Tail(s))
    ELSE IF s[Len(s)] \in Whitespace THEN strip(SubSeq(s, 1, Len(s) - 1))
    ELSE s

\* [f(x) for piece in pieces for x in piece.split(',')] with f = str.strip
RECURSIVE comma_chunks(_)
comma_chunks(pieces) ==
    IF pieces = <<>>
    THEN <<>>
    ELSE LET parts == split(Head(pieces), <<",">>)
         IN  [k \in 1..Len(parts) |-> strip(parts[k])] \o comma_chunks(Tail(pieces))

\* chunks = [comma_split.strip() for or_split in bread_name.split("or")
\*           for comma_split in or_split.split(',')]
chunks_of(s) == comma_chunks(split(s, <<"o", "r">>))

\* a variant whose exceptions leave out the space
is_exception_apostrophe_only(char) == char \in {"'"}

\* normalization_capitalization_exceptions = {" ", "'"}
is_exception(char) == char \in {" ", "'"}

\* chunk[lo:hi], with Python's 0-based bounds
slice(chunk, lo, hi) == SubSeq(chunk, lo + 1, hi)

\* The loop of lines 150-161 over one chunk from index i on, with last_i and
\* the components found so far; i and last_i are Python's 0-based indexes.
RECURSIVE scan(_, _, _, _)
scan(chunk, i, last_i, found) ==
    IF i >= Len(chunk)
    THEN found \cup {slice(chunk, last_i, Len(chunk))}
    ELSE IF i = 0
         THEN scan(chunk, i + 1, last_i, found)
         ELSE IF is_upper(chunk[i + 1]) /\ ~is_exception(chunk[i])
              THEN scan(chunk, i + 1, i, found \cup {slice(chunk, last_i, i)})
              ELSE scan(chunk, i + 1, last_i, found)

\* for chunk in chunks: ... last_i = 0
RECURSIVE scan_chunks(_, _)
scan_chunks(chunks, found) ==
    IF chunks = <<>>
    THEN found
    ELSE scan_chunks(Tail(chunks), scan(Head(chunks), 0, 0, found))

\* _normalize_bread_name(s) in a process that iterates illegal_characters
\* in the given order
normalize_bread_name(s, order) ==
    scan_chunks(chunks_of(strip_illegal(s, order)), {})

InitNorm ==
    /\ generators = [g \in Generators |-> NoGenerator]
    /\ memo = <<>>
    /\ a = <<>>
    /\ b = <<>>
    /\ last = NoCall
    /\ RankUnused
    /\ bread_name \in Entries
    /\ illegal_order \in {<<Quote, Misdecoded>>, <<Misdecoded, Quote>>}
    /\ components = [done |-> FALSE]
    /\ again = [done |-> FALSE]

\* _normalize_bread_name(bread_name) is called
Normalize ==
    /\ ~components.done
    /\ components' = [done |-> TRUE,
                      set |-> normalize_bread_name(bread_name, illegal_order)]
    /\ UNCHANGED <<bread_name, illegal_order, again>>
    /\ UNCHANGED <<distVars, rankVars>>

\* one of the returned components is normalized again
Renormalize ==
    /\ components.done
    /\ ~again.done
    /\ \E token \in components.set :
          again' = [done |-> TRUE, token |-> token,
                    set |-> normalize_bread_name(token, illegal_order)]
    /\ UNCHANGED <<bread_name, illegal_order, components>>
    /\ UNCHANGED <<distVars, rankVars>>

NextNorm == Normalize \/ Renormalize

SpecNorm == InitNorm /\ [][NextNorm]_vars

----------------------------------------------------------------------------
(* Claims about the distance engine, checked under Spec *)

\* the generator that made the most recent call
caller == generators[last.g]

non_negative(self) ==
    /\ self.insertion_cost >= 0
    /\ self.deletion_cost >= 0
    /\ self.substitution_cost >= 0

\* s and t have the same length and differ in exactly one position
one_substitution(s, t) ==
    /\ Len(s) = Len(t)
    /\ Cardinality({k \in 1..Len(s) : s[k] # t[k]}) = 1

\* t is s followed by one more character
one_appended(s, t) ==
    /\ Len(t) = Len(s) + 1
    /\ SubSeq(t, 1, Len(s)) = s

\* C3: the memo never changes a result: every distance(a, b) call returns
\* the value the memo-free recurrence returns for the calling generator's
\* own costs, whatever calls other generators made before.  Stated here
\* for generators whose costs are all non-negative.
C3_MemoNeverChangesResult ==
    (/\ last.op = "distance"
     /\ \A g \in Generators : generators[g].made => non_negative(generators[g])) =>
        last.val = recurrence(caller, a, b, Len(a), Len(b))

C8_EmptyWordDistanceIsLength ==
    last.op = "distance" =>
        /\ b = <<>> => last.val = Len(a)
        /\ a = <<>> => last.val = Len(b)

\* a generator whose costs are not 1 has returned 2 for a two-character
\* word against the empty word
C8_Witness ==
    /\ last.op = "distance"
    /\ b = <<>> /\ Len(a) = 2
    /\ caller.insertion_cost = 2 /\ caller.deletion_cost = 0
    /\ last.val = 2

\* C10: deleting a character of a is charged deletion_cost and inserting a
\* character of b is charged insertion_cost: distance(b+c, b) = deletion_cost
\* when deletion_cost is the smallest cost, distance(b, b+c) = insertion_cost
\* when insertion_cost is the smallest cost.  Stated here for non-negative
\* costs and a memo that holds nothing for the pair, so that a violation is
\* the recurrence's own doing.
C10_WeightsAttributedToNamedEdits ==
    (last.op = "distance" /\ non_negative(caller) /\ ~last.warm) =>
        /\ (/\ b # <<>> /\ one_appended(b, a)
            /\ caller.deletion_cost <= caller.insertion_cost
            /\ caller.deletion_cost <= caller.substitution_cost)
              => last.val = caller.deletion_cost
        /\ (/\ a # <<>> /\ one_appended(a, b)
            /\ caller.insertion_cost <= caller.deletion_cost
            /\ caller.insertion_cost <= caller.substitution_cost)
              => last.val = caller.insertion_cost

----------------------------------------------------------------------------
(* Claims about best_breads_for_name, checked under SpecRank *)

\* the distance the ranking is claimed to follow: the recurrence under the
\* ranking generator's own costs, on the lowercased name and bread
score(g, bread) ==
    recurrence(generators[g], lower(name), lower(bread),
               Len(lower(name)), Len(lower(bread)))

\* C1: the list returned holds every string of the corpus (the union of the
\* sources in use) exactly once and is in non-decreasing order of
\* score(r) = distance(lowercase(candidate), lowercase(r)).
C1_RankedByDistance ==
    outcome.status = "returned" =>
        /\ Len(outcome.out) = Cardinality(every_bread)
        /\ {outcome.out[k] : k \in 1..Len(outcome.out)} = every_bread
        /\ \A k \in 1..(Len(outcome.out) - 1) :
              score(outcome.g, outcome.out[k]) <= score(outcome.g, outcome.out[k + 1])

\* C2: for the same name, corpus and costs, a call with threading unset and
\* a call with threading = n > 0 return identical lists: every list a
\* generator returns, in either mode and under every interleaving of the
\* pool's threads, is the list its first call returned.
C2_PoolReturnsTheSequentialList ==
    outcome.status = "returned" => outcome.out = returned[outcome.g].out

\* a call on a pool of two threads has returned all three corpus strings,
\* two of them lowercasing to the same word, for a generator whose first
\* call was sequential, from a dict that held another generator's values
C2_Witness ==
    /\ outcome.status = "returned"
    /\ outcome.threading = 2
    /\ ~returned[outcome.g].pooled
    /\ returned[3 - outcome.g].ran
    /\ Len(outcome.out) = 3
    /\ \E k \in 1..2 : /\ outcome.out[k] # outcome.out[k + 1]
                       /\ lower(outcome.out[k]) = lower(outcome.out[k + 1])

\* C4: a call whose worker count is <= 0, zero included, ends in an error
\* and returns no list.
C4_NonPositiveThreadsRejected ==
    (/\ outcome.status # "none"
     /\ outcome.threading # None
     /\ outcome.threading <= 0) => outcome.status = "raised"

----------------------------------------------------------------------------
(* Claims about _normalize_bread_name, checked under SpecNorm *)

\* C6: normalize("CornBread") returns exactly {"Corn", "Bread"}: the entry
\* is split at the internal capital "B" and at no other position.
C6_CornBreadSplitsAtTheCapital ==
    (components.done /\ bread_name = CornBread) =>
        components.set = {<<"C", "o", "r", "n">>, <<"B", "r", "e", "a", "d">>}

\* s holds the characters of pat somewhere
contains(s, pat) == \E k \in 1..Len(s) : starts_with(SubSeq(s, k, Len(s)), pat)

\* no double quote and no mis-decoded quote
no_illegal_character(t) == ~contains(t, Quote) /\ ~contains(t, Misdecoded)

\* no whitespace at either end
no_surrounding_whitespace(t) ==
    t = <<>> \/ (t[1] \notin Whitespace /\ t[Len(t)] \notin Whitespace)

\* an already-normalized single token, in the claim's terms: no disallowed
\* character, no surrounding whitespace, no embedded "or", no comma, and no
\* uppercase ASCII letter after position 0 other than one preceded by a
\* space or an apostrophe
already_normalized(t) ==
    /\ no_illegal_character(t)
    /\ no_surrounding_whitespace(t)
    /\ ~contains(t, <<"o", "r">>)
    /\ ~contains(t, <<",">>)
    /\ \A k \in 2..Len(t) : is_upper(t[k]) => t[k - 1] \in {" ", "'"}

\* C9: normalize(t) = {t} for every already-normalized single token t, and
\* in particular for every token t that normalize(e) returns for an entry e.
C9_NormalizeIsIdempotentOnTokens ==
    /\ (components.done /\ already_normalized(bread_name)) =>
          components.set = {bread_name}
    /\ again.done => again.set = {again.token}

\* The part of C9 that is the spec's sentence: normalize(t) = {t} for every
\* already-normalized single token t, whether t is the entry given or a
\* component returned for another entry.
C9_AlreadyNormalizedTokenIsKept ==
    /\ (components.done /\ already_normalized(bread_name)) =>
          components.set = {bread_name}
    /\ (again.done /\ already_normalized(again.token)) =>
          again.set = {again.token}

\* "French Bread", returned for "French Bread, Italian Bread" with its
\* capital after a space, has been normalized again and kept whole
C9_KeptWitness ==
    /\ again.done
    /\ Cardinality(components.set) = 2
    /\ again.token = FrenchBread
    /\ again.set = {FrenchBread}

====
